---- MODULE Spec2Model ----
(***************************************************************************)
(* Model of the MUX2001 REVA driver (src/MUX2001_REVA.py): a MuxStack owns *)
(* an ordered list of MuxCardGroup objects, each owning an ordered list of *)
(* MuxCard objects holding a 3-byte register image.  Every public method   *)
(* of MuxStack is one action; the three injected functions (write_rclk,    *)
(* write_spi_bytes, read_nmr) and time.sleep are recorded in an event log. *)
(***************************************************************************)
EXTENDS Integers, Sequences, FiniteSets, TLC

VARIABLES
    card_groups,   \* MuxStack._card_groups: sequence of [num_cards, cards, spi_data]
    spi_data,      \* MuxStack.spi_data (meaningful only when has_spi_data)
    has_spi_data,  \* whether the attribute MuxStack.spi_data exists yet
    rclk,          \* per group: value last passed to its write_rclk_fn, -1 = never driven
    events,        \* external calls made by the most recent method call, in order
    call,          \* the most recent method call and its arguments
    ret,           \* its outcome: "1", "0", "None" or "IndexError"
    thread,        \* per calling thread: the call it is inside and its position in it
    mutex,         \* the callers' mutex: whether they use one, and the thread holding it
    xfer           \* what the most recent write_spi_bytes call met: latch levels, payload

vars == <<card_groups, spi_data, has_spi_data, rclk, events, call, ret,
          thread, mutex, xfer>>

(* the variables of the multi-threaded view; one caller never changes them *)
conc_vars == <<thread, mutex, xfer>>

-----------------------------------------------------------------------------
(* Bounds of the model *)

MaxGroups == 2      \* add_card_group is called at most this many times
MaxCards == 3       \* the groups of the stack hold at most this many cards in all
PinMargin == 2      \* the encoder is exercised on pins -PinMargin .. 21+PinMargin

(* Program constants *)

CurrentPin == 21    \* in_p of the current channel
MaxDiffPin == 19    \* largest in_p of a 2-pole measurement
MaxVoltPin == 20    \* largest in_p of a single-ended measurement
SettleLowMs == 40   \* time.sleep(0.04)
SettleHighMs == 5   \* time.sleep(0.005)

-----------------------------------------------------------------------------
(* Python list indexing: index i of a list of length n resolves for        *)
(* -n <= i < n, negative indices counting from the end; anything else      *)
(* raises IndexError.  PyPos is the 1-based position the index resolves to.*)

PyResolves(n, i) == (0 - n) <= i /\ i < n

PyPos(n, i) == IF i >= 0 THEN i + 1 ELSE n + i + 1

(* int(x / 2): true division followed by truncation toward zero *)
IntHalf(x) == IF x >= 0 THEN x \div 2 ELSE 0 - ((0 - x) \div 2)

(* list.extend over a sequence of byte lists *)
RECURSIVE Extend(_)
Extend(lists) ==
    IF lists = <<>> THEN <<>>
    ELSE Head(lists) \o Extend(Tail(lists))

-----------------------------------------------------------------------------
(* MuxCard *)

lut_two_bits == <<192, 64, 16, 8, 4>>

lut == <<128, 64, 16, 8, 4>>     \* [0x80, 0x40, 0x10, 0x08, 0x04]

MuxCard_clear == <<0, 0, 0>>

(* MuxCard.set_ch, branch by branch.  lut[k] of the source is lut[k+1].    *)

(* `if in_p == 21` *)
IsCurrent_with_neg(in_p, in_n) == in_p = CurrentPin /\ in_n = CurrentPin

IsCurrent(in_p, in_n) == in_p = CurrentPin

(* `elif (in_p % 2 == 1) and (in_n == in_p + 1) and (1 <= in_p <= 19)` *)
IsTwoPole(in_p, in_n) ==
    (in_p % 2 = 1) /\ (in_n = in_p + 1) /\ (1 <= in_p /\ in_p <= MaxDiffPin)

(* `elif in_n == 0 and (1 <= in_p <= 20)` *)
IsSingleEnded_any_neg(in_p, in_n) == 1 <= in_p /\ in_p <= MaxVoltPin

IsSingleEnded(in_p, in_n) == in_n = 0 /\ (1 <= in_p /\ in_p <= MaxVoltPin)

(* the pin-group byte: lut entry in byte 0 for pins 1..10, in byte 1 for   *)
(* pins 11..last, on an image whose byte 2 is already set                  *)
PinGroup(img, in_p, last) ==
    IF 1 <= in_p /\ in_p <= 10
    THEN [img EXCEPT ![1] = lut[IntHalf(in_p - 1) + 1]]
    ELSE IF 11 <= in_p /\ in_p <= last
    THEN [img EXCEPT ![2] = lut[IntHalf(in_p - 11) + 1]]
    ELSE img

CurrentImage == [MuxCard_clear EXCEPT ![2] = 2]

TwoPoleImage_no_ab(in_p) == PinGroup(MuxCard_clear, in_p, MaxDiffPin)

TwoPoleImage(in_p) ==
    PinGroup([MuxCard_clear EXCEPT ![3] = 16], in_p, MaxDiffPin)

SingleEndedImage_swapped(in_p) ==
    PinGroup([MuxCard_clear EXCEPT ![3] = IF in_p % 2 = 1 THEN 4 ELSE 8],
             in_p, MaxVoltPin)

SingleEndedImage_always_a(in_p) ==
    PinGroup([MuxCard_clear EXCEPT ![3] = 8], in_p, MaxVoltPin)

SingleEndedImage(in_p) ==
    PinGroup([MuxCard_clear EXCEPT ![3] = IF in_p % 2 = 1 THEN 8 ELSE 4],
             in_p, MaxVoltPin)

(* MuxCard.set_ch: the image left in the card's spi_data *)
MuxCard_set_ch(in_p, in_n) ==
    IF IsCurrent(in_p, in_n) THEN CurrentImage
    ELSE IF IsTwoPole(in_p, in_n) THEN TwoPoleImage(in_p)
    ELSE IF IsSingleEnded(in_p, in_n) THEN SingleEndedImage(in_p)
    ELSE MuxCard_clear

-----------------------------------------------------------------------------
(* MuxCardGroup *)

MuxCardGroup_init(num_cards) ==
    [num_cards |-> num_cards,
     cards     |-> [i \in 1..num_cards |-> <<0, 0, 0>>],
     spi_data  |-> [i \in 1..(3 * num_cards) |-> 0]]

MuxCardGroup_clear_stale_payload(grp) ==
    [grp EXCEPT !.cards = [i \in 1..grp.num_cards |-> MuxCard_clear]]

(* MuxCardGroup.clear: every card cleared, group payload rebuilt *)
MuxCardGroup_clear(grp) ==
    LET cleared == [i \in 1..grp.num_cards |-> MuxCard_clear]
    IN  [grp EXCEPT !.cards = cleared, !.spi_data = Extend(cleared)]

MuxCardGroup_set_ch_no_clear(grp, pos, in_p, in_n) ==
    LET new == [grp.cards EXCEPT ![pos] = MuxCard_set_ch(in_p, in_n)]
    IN  [grp EXCEPT !.cards = new, !.spi_data = Extend(new)]

MuxCardGroup_set_ch_clear_one(grp, pos, in_p, in_n) ==
    LET new == [grp.cards EXCEPT ![pos] = MuxCard_set_ch(in_p, in_n)]
    IN  [grp EXCEPT !.cards = new, !.spi_data = Extend(new)]

(* MuxCardGroup.set_ch for a card index that resolves (pos is 1-based) *)
MuxCardGroup_set_ch(grp, pos, in_p, in_n) ==
    LET c   == MuxCardGroup_clear(grp)
        new == [c.cards EXCEPT ![pos] = MuxCard_set_ch(in_p, in_n)]
    IN  [c EXCEPT !.cards = new, !.spi_data = Extend(new)]

-----------------------------------------------------------------------------
(* MuxStack._write_spi, as the values it produces *)

write_spi_data_reversed(groups) ==
    Extend([i \in 1..Len(groups) |-> groups[Len(groups) + 1 - i].spi_data])

(* the assembled buffer: every group's spi_data, in list order *)
write_spi_data(groups) ==
    Extend([i \in 1..Len(groups) |-> groups[i].spi_data])

RclkEvent(g, state) == [ev |-> "rclk", group |-> g, arg |-> state, data |-> <<>>]
SleepEvent(ms)      == [ev |-> "sleep", group |-> 0, arg |-> ms, data |-> <<>>]
SpiEvent(bytes)     == [ev |-> "spi", group |-> 0, arg |-> 0, data |-> bytes]
NmrEvent(level)     == [ev |-> "nmr", group |-> 0, arg |-> level, data |-> <<>>]

write_spi_events_latch_early(groups, nmr) ==
    [i \in 1..Len(groups) |-> RclkEvent(i, 0)]
    \o <<SleepEvent(SettleLowMs)>>
    \o [i \in 1..Len(groups) |-> RclkEvent(i, 1)]
    \o <<SpiEvent(write_spi_data(groups))>>
    \o <<SleepEvent(SettleHighMs)>>
    \o <<NmrEvent(nmr)>>

write_spi_events_retry(groups, nmr) ==
    LET once == [i \in 1..Len(groups) |-> RclkEvent(i, 0)]
                \o <<SleepEvent(SettleLowMs)>>
                \o <<SpiEvent(write_spi_data(groups))>>
                \o [i \in 1..Len(groups) |-> RclkEvent(i, 1)]
                \o <<SleepEvent(SettleHighMs)>>
                \o <<NmrEvent(nmr)>>
    IN  IF nmr = 1 THEN once ELSE once \o once

(* the external calls _write_spi makes, in program order; nmr is the level *)
(* read_nmr returns                                                        *)
write_spi_events(groups, nmr) ==
    [i \in 1..Len(groups) |-> RclkEvent(i, 0)]
    \o <<SleepEvent(SettleLowMs)>>
    \o <<SpiEvent(write_spi_data(groups))>>
    \o [i \in 1..Len(groups) |-> RclkEvent(i, 1)]
    \o <<SleepEvent(SettleHighMs)>>
    \o <<NmrEvent(nmr)>>

(* the value _write_spi returns *)
write_spi_ret(nmr) == IF nmr = 1 THEN "1" ELSE "0"

(* what clear_all, clear_group and set_ch hand back from _write_spi *)
clear_all_ret(nmr) == write_spi_ret(nmr)

clear_group_ret(nmr) == write_spi_ret(nmr)

set_ch_ret(nmr) == "None"

-----------------------------------------------------------------------------
(* Inputs *)

Pins == (0 - PinMargin)..(CurrentPin + PinMargin)

(* pin pairs used when the topology is explored: an unrecognized pair, a   *)
(* single-ended channel (register bytes 0 and 2) and the current channel   *)
(* (register byte 1)                                                       *)
SelPinPairs == {<<0, 0>>, <<1, 0>>, <<21, 21>>}

(* 1-indexed group arguments: every group of the stack, one past the last, *)
(* 0 and -1                                                                *)
GroupArgs(groups) == (0 - 1)..(Len(groups) + 1)

RECURSIVE LargestGroup(_)
LargestGroup(groups) ==
    IF groups = <<>> THEN 0
    ELSE LET m == LargestGroup(Tail(groups))
         IN  IF Head(groups).num_cards > m THEN Head(groups).num_cards ELSE m

(* 1-indexed card arguments: every card of the largest group, one past it, *)
(* and 0                                                                   *)
CardArgs(groups) == 0..(LargestGroup(groups) + 1)

Levels == {0, 1}

Call(op, g, c, p, n) ==
    [op |-> op, group |-> g, card |-> c, in_p |-> p, in_n |-> n]

-----------------------------------------------------------------------------
(* MuxStack *)

RECURSIVE TotalCards(_)
TotalCards(groups) ==
    IF groups = <<>> THEN 0
    ELSE Head(groups).num_cards + TotalCards(Tail(groups))

Init ==
    /\ card_groups = <<>>
    /\ spi_data = <<>>
    /\ has_spi_data = FALSE
    /\ rclk = <<>>
    /\ events = <<>>
    /\ call = Call("init", 0, 0, 0, 0)
    /\ ret = "None"
    /\ thread = <<>>
    /\ mutex = [used |-> FALSE, owner |-> 0]
    /\ xfer = [sent |-> FALSE, latched |-> FALSE, stale |-> FALSE]

(* the commit made by _write_spi on the groups as they now are *)
Commit(groups, nmr) ==
    /\ card_groups' = groups
    /\ spi_data' = write_spi_data(groups)
    /\ has_spi_data' = TRUE
    /\ rclk' = [i \in 1..Len(groups) |-> 1]
    /\ events' = write_spi_events(groups, nmr)

(* an IndexError raised with the groups left as given *)
Raise(groups) ==
    /\ card_groups' = groups
    /\ events' = <<>>
    /\ ret' = "IndexError"
    /\ UNCHANGED <<spi_data, has_spi_data, rclk>>

add_card_group_prepend(num_cards) ==
    /\ Len(card_groups) < MaxGroups
    /\ TotalCards(card_groups) + num_cards <= MaxCards
    /\ card_groups' = <<MuxCardGroup_init(num_cards)>> \o card_groups
    /\ rclk' = <<0 - 1>> \o rclk
    /\ events' = <<>>
    /\ call' = Call("add_card_group", 0, num_cards, 0, 0)
    /\ ret' = "None"
    /\ UNCHANGED <<spi_data, has_spi_data>>

add_card_group(num_cards) ==
    /\ Len(card_groups) < MaxGroups
    /\ TotalCards(card_groups) + num_cards <= MaxCards
    /\ card_groups' = Append(card_groups, MuxCardGroup_init(num_cards))
    /\ rclk' = Append(rclk, 0 - 1)
    /\ events' = <<>>
    /\ call' = Call("add_card_group", 0, num_cards, 0, 0)
    /\ ret' = "None"
    /\ UNCHANGED <<spi_data, has_spi_data>>

clear_all(nmr) ==
    /\ call' = Call("clear_all", 0, 0, 0, 0)
    /\ Commit([i \in 1..Len(card_groups) |-> MuxCardGroup_clear(card_groups[i])], nmr)
    /\ ret' = clear_all_ret(nmr)

clear_group_every_group(group, nmr) ==
    LET i == group - 1
        n == Len(card_groups)
    IN  /\ call' = Call("clear_group", group, 0, 0, 0)
        /\ IF PyResolves(n, i)
           THEN /\ Commit([k \in 1..n |-> MuxCardGroup_clear(card_groups[k])], nmr)
                /\ ret' = clear_group_ret(nmr)
           ELSE Raise(card_groups)

clear_group(group, nmr) ==
    LET i == group - 1
        n == Len(card_groups)
    IN  /\ call' = Call("clear_group", group, 0, 0, 0)
        /\ IF PyResolves(n, i)
           THEN /\ Commit([card_groups EXCEPT ![PyPos(n, i)] =
                              MuxCardGroup_clear(card_groups[PyPos(n, i)])], nmr)
                /\ ret' = clear_group_ret(nmr)
           ELSE Raise(card_groups)

set_ch_clears_others(ch_tuple, nmr) ==
    LET group   == ch_tuple[1] - 1
        card    == ch_tuple[2] - 1
        in_p    == ch_tuple[3]
        in_n    == ch_tuple[4]
        n       == Len(card_groups)
        cleared == [k \in 1..n |-> MuxCardGroup_clear(card_groups[k])]
    IN  /\ call' = Call("set_ch", ch_tuple[1], ch_tuple[2], in_p, in_n)
        /\ IF ~PyResolves(n, group)
           THEN Raise(card_groups)
           ELSE LET g   == PyPos(n, group)
                    grp == card_groups[g]
                IN  IF ~PyResolves(Len(grp.cards), card)
                    THEN Raise([card_groups EXCEPT ![g] = MuxCardGroup_clear(grp)])
                    ELSE /\ Commit([cleared EXCEPT ![g] =
                                       MuxCardGroup_set_ch(grp, PyPos(Len(grp.cards), card),
                                                           in_p, in_n)], nmr)
                         /\ ret' = set_ch_ret(nmr)

set_ch(ch_tuple, nmr) ==
    LET group == ch_tuple[1] - 1
        card  == ch_tuple[2] - 1
        in_p  == ch_tuple[3]
        in_n  == ch_tuple[4]
        n     == Len(card_groups)
    IN  /\ call' = Call("set_ch", ch_tuple[1], ch_tuple[2], in_p, in_n)
        /\ IF ~PyResolves(n, group)
           THEN Raise(card_groups)
           ELSE LET g   == PyPos(n, group)
                    grp == card_groups[g]
                IN  IF ~PyResolves(Len(grp.cards), card)
                    THEN \* MuxCardGroup.set_ch has run clear() before cards[card] raises
                         Raise([card_groups EXCEPT ![g] = MuxCardGroup_clear(grp)])
                    ELSE /\ Commit([card_groups EXCEPT ![g] =
                                       MuxCardGroup_set_ch(grp, PyPos(Len(grp.cards), card),
                                                           in_p, in_n)], nmr)
                         /\ ret' = set_ch_ret(nmr)

-----------------------------------------------------------------------------
(* The stack under any sequence of calls *)

AddCardGroup ==
    /\ \E num_cards \in 1..MaxCards : add_card_group(num_cards)
    /\ UNCHANGED conc_vars

ClearAll ==
    /\ \E nmr \in Levels : clear_all(nmr)
    /\ UNCHANGED conc_vars

ClearGroup ==
    /\ \E group \in GroupArgs(card_groups), nmr \in Levels : clear_group(group, nmr)
    /\ UNCHANGED conc_vars

SetCh ==
    /\ \E group \in GroupArgs(card_groups), card \in CardArgs(card_groups),
          pp \in SelPinPairs, nmr \in Levels :
           set_ch(<<group, card, pp[1], pp[2]>>, nmr)
    /\ UNCHANGED conc_vars

Next == AddCardGroup \/ ClearAll \/ ClearGroup \/ SetCh

Spec == Init /\ [][Next]_vars

(* One group of one card, the encoder driven over every pin pair *)

EncAddCardGroup ==
    Len(card_groups) = 0 /\ add_card_group(1) /\ UNCHANGED conc_vars

EncSetCh ==
    /\ \E in_p \in Pins, in_n \in Pins, nmr \in Levels :
          Len(card_groups) = 1 /\ set_ch(<<1, 1, in_p, in_n>>, nmr)
    /\ UNCHANGED conc_vars

EncNext == EncAddCardGroup \/ EncSetCh

EncSpec == Init /\ [][EncNext]_vars

-----------------------------------------------------------------------------
(* Several threads calling set_ch and clear_all on one MuxStack, statement *)
(* by statement.  The stack has one group of two cards.  A thread's record *)
(* holds its call, its position (pc), and its loop variables: gi, the      *)
(* group at hand, and ci, the card at hand.                                *)

Threads == {1, 2}

(* the channel the concurrent callers select: single-ended, pin 1 *)
ConcPinPairs == {<<1, 0>>}

Idle == [pc |-> "idle", op |-> "none", card |-> 0, in_p |-> 0, in_n |-> 0,
         gi |-> 0, ci |-> 0]

Goto(t, pc, gi, ci) ==
    thread' = [thread EXCEPT ![t] = [@ EXCEPT !.pc = pc, !.gi = gi, !.ci = ci]]

(* self.cards[i].clear() in MuxCardGroup.clear *)
ClearCardAt_skip(groups, gi, ci) == groups

ClearCardAt(groups, gi, ci) == [groups EXCEPT ![gi].cards[ci] = MuxCard_clear]

(* self.spi_data.extend(self.cards[i].spi_data) in MuxCardGroup *)
ExtendGroupAt(groups, gi, ci) ==
    [groups EXCEPT ![gi].spi_data = @ \o groups[gi].cards[ci]]

ConcInit ==
    /\ card_groups = <<MuxCardGroup_init(2)>>
    /\ spi_data = <<>>
    /\ has_spi_data = FALSE
    /\ rclk = <<0 - 1>>
    /\ events = <<>>
    /\ call = Call("init", 0, 0, 0, 0)
    /\ ret = "None"
    /\ thread = [t \in Threads |-> Idle]
    /\ mutex \in {[used |-> u, owner |-> 0] : u \in BOOLEAN}
    /\ xfer = [sent |-> FALSE, latched |-> FALSE, stale |-> FALSE]

(* a thread enters set_ch((1, card, in_p, in_n)) or clear_all(), taking    *)
(* the callers' mutex first when they use one                              *)
Begin(t) ==
    /\ thread[t].pc = "idle"
    /\ mutex.used => mutex.owner = 0
    /\ mutex' = IF mutex.used THEN [mutex EXCEPT !.owner = t] ELSE mutex
    /\ \/ \E card \in 1..card_groups[1].num_cards, pp \in ConcPinPairs :
             thread' = [thread EXCEPT ![t] =
                           [pc |-> "clear_reset", op |-> "set_ch", card |-> card,
                            in_p |-> pp[1], in_n |-> pp[2], gi |-> 1, ci |-> 0]]
       \/ thread' = [thread EXCEPT ![t] =
                        [pc |-> "clear_reset", op |-> "clear_all", card |-> 0,
                         in_p |-> 0, in_n |-> 0, gi |-> 1, ci |-> 0]]
    /\ UNCHANGED <<card_groups, spi_data, has_spi_data, rclk, events, call, ret, xfer>>

(* MuxCardGroup.clear: self.spi_data = [] *)
ClearReset(t) ==
    /\ thread[t].pc = "clear_reset"
    /\ card_groups' = [card_groups EXCEPT ![thread[t].gi].spi_data = <<>>]
    /\ Goto(t, "clear_card", thread[t].gi, 1)
    /\ UNCHANGED <<spi_data, has_spi_data, rclk, events, call, ret, mutex, xfer>>

(* MuxCardGroup.clear: self.cards[i].clear() *)
ClearCard(t) ==
    /\ thread[t].pc = "clear_card"
    /\ card_groups' = ClearCardAt(card_groups, thread[t].gi, thread[t].ci)
    /\ Goto(t, "clear_extend", thread[t].gi, thread[t].ci)
    /\ UNCHANGED <<spi_data, has_spi_data, rclk, events, call, ret, mutex, xfer>>

(* MuxCardGroup.clear: self.spi_data.extend(...), then the next card, the  *)
(* next group of clear_all, or on to the caller's next statement           *)
ClearExtend(t) ==
    LET gi == thread[t].gi
        ci == thread[t].ci
    IN  /\ thread[t].pc = "clear_extend"
        /\ card_groups' = ExtendGroupAt(card_groups, gi, ci)
        /\ IF ci < card_groups[gi].num_cards THEN Goto(t, "clear_card", gi, ci + 1)
           ELSE IF thread[t].op = "set_ch" THEN Goto(t, "card_clear", gi, 0)
           ELSE IF gi < Len(card_groups) THEN Goto(t, "clear_reset", gi + 1, 0)
           ELSE Goto(t, "spi_reset", 0, 0)
        /\ UNCHANGED <<spi_data, has_spi_data, rclk, events, call, ret, mutex, xfer>>

(* MuxCard.set_ch: self.clear() *)
CardClear(t) ==
    /\ thread[t].pc = "card_clear"
    /\ card_groups' = [card_groups EXCEPT ![thread[t].gi].cards[thread[t].card] =
                          MuxCard_clear]
    /\ Goto(t, "card_ab", thread[t].gi, 0)
    /\ UNCHANGED <<spi_data, has_spi_data, rclk, events, call, ret, mutex, xfer>>

(* MuxCard.set_ch: the assignment to self.spi_data[2] of the branch taken *)
CardAb(t) ==
    /\ thread[t].pc = "card_ab"
    /\ card_groups' = [card_groups EXCEPT ![thread[t].gi].cards[thread[t].card][3] =
                          MuxCard_set_ch(thread[t].in_p, thread[t].in_n)[3]]
    /\ Goto(t, "card_lut", thread[t].gi, 0)
    /\ UNCHANGED <<spi_data, has_spi_data, rclk, events, call, ret, mutex, xfer>>

(* MuxCard.set_ch: the assignment to self.spi_data[0] (pins 1..10) or to   *)
(* self.spi_data[1] (pins 11..20) of the single-ended branch               *)
CardLut(t) ==
    LET img == MuxCard_set_ch(thread[t].in_p, thread[t].in_n)
        b   == IF thread[t].in_p <= 10 THEN 1 ELSE 2
    IN  /\ thread[t].pc = "card_lut"
        /\ card_groups' = [card_groups EXCEPT
                              ![thread[t].gi].cards[thread[t].card][b] = img[b]]
        /\ Goto(t, "group_reset", thread[t].gi, 0)
        /\ UNCHANGED <<spi_data, has_spi_data, rclk, events, call, ret, mutex, xfer>>

(* MuxCardGroup.set_ch: self.spi_data = [] *)
GroupReset(t) ==
    /\ thread[t].pc = "group_reset"
    /\ card_groups' = [card_groups EXCEPT ![thread[t].gi].spi_data = <<>>]
    /\ Goto(t, "group_extend", thread[t].gi, 1)
    /\ UNCHANGED <<spi_data, has_spi_data, rclk, events, call, ret, mutex, xfer>>

(* MuxCardGroup.set_ch: self.spi_data.extend(self.cards[i].spi_data) *)
GroupExtend(t) ==
    LET gi == thread[t].gi
        ci == thread[t].ci
    IN  /\ thread[t].pc = "group_extend"
        /\ card_groups' = ExtendGroupAt(card_groups, gi, ci)
        /\ IF ci < card_groups[gi].num_cards THEN Goto(t, "group_extend", gi, ci + 1)
           ELSE Goto(t, "spi_reset", 0, 0)
        /\ UNCHANGED <<spi_data, has_spi_data, rclk, events, call, ret, mutex, xfer>>

(* _write_spi: self.spi_data = [] *)
SpiReset(t) ==
    /\ thread[t].pc = "spi_reset"
    /\ spi_data' = <<>>
    /\ has_spi_data' = TRUE
    /\ Goto(t, "spi_extend", 1, 0)
    /\ UNCHANGED <<card_groups, rclk, events, call, ret, mutex, xfer>>

(* _write_spi: self.spi_data.extend(self._card_groups[i].spi_data) *)
SpiExtend(t) ==
    /\ thread[t].pc = "spi_extend"
    /\ spi_data' = spi_data \o card_groups[thread[t].gi].spi_data
    /\ Goto(t, "rclk_low", thread[t].gi, 0)
    /\ UNCHANGED <<card_groups, has_spi_data, rclk, events, call, ret, mutex, xfer>>

(* _write_spi: self._card_groups[i].write_rclk(0), then the next group *)
RclkLow(t) ==
    LET gi == thread[t].gi
    IN  /\ thread[t].pc = "rclk_low"
        /\ rclk' = [rclk EXCEPT ![gi] = 0]
        /\ IF gi < Len(card_groups) THEN Goto(t, "spi_extend", gi + 1, 0)
           ELSE Goto(t, "sleep_low", 0, 0)
        /\ UNCHANGED <<card_groups, spi_data, has_spi_data, events, call, ret, mutex, xfer>>

(* _write_spi: time.sleep(0.04) *)
SleepLow(t) ==
    /\ thread[t].pc = "sleep_low"
    /\ Goto(t, "transfer", 0, 0)
    /\ UNCHANGED <<card_groups, spi_data, has_spi_data, rclk, events, call, ret,
                   mutex, xfer>>

(* _write_spi: self.write_spi_bytes(self.spi_data); xfer notes whether a   *)
(* latch line was last driven to 1 and whether the bytes differ from the   *)
(* card images as they are at this moment                                  *)
Transfer(t) ==
    /\ thread[t].pc = "transfer"
    /\ xfer' = [sent    |-> TRUE,
                latched |-> \E g \in 1..Len(rclk) : rclk[g] = 1,
                stale   |-> spi_data #
                              Extend([g \in 1..Len(card_groups) |->
                                         Extend(card_groups[g].cards)])]
    /\ Goto(t, "rclk_high", 1, 0)
    /\ UNCHANGED <<card_groups, spi_data, has_spi_data, rclk, events, call, ret, mutex>>

(* _write_spi: self._card_groups[i].write_rclk(1), then the next group *)
RclkHigh(t) ==
    LET gi == thread[t].gi
    IN  /\ thread[t].pc = "rclk_high"
        /\ rclk' = [rclk EXCEPT ![gi] = 1]
        /\ IF gi < Len(card_groups) THEN Goto(t, "rclk_high", gi + 1, 0)
           ELSE Goto(t, "sleep_high", 0, 0)
        /\ UNCHANGED <<card_groups, spi_data, has_spi_data, events, call, ret, mutex, xfer>>

(* _write_spi: time.sleep(0.005) *)
SleepHigh(t) ==
    /\ thread[t].pc = "sleep_high"
    /\ Goto(t, "read_nmr", 0, 0)
    /\ UNCHANGED <<card_groups, spi_data, has_spi_data, rclk, events, call, ret,
                   mutex, xfer>>

(* _write_spi: self.read_nmr() and the return to the caller, who releases  *)
(* the mutex when one is used                                              *)
ReadNmr(t) ==
    /\ thread[t].pc = "read_nmr"
    /\ thread' = [thread EXCEPT ![t] = Idle]
    /\ mutex' = [mutex EXCEPT !.owner = 0]
    /\ UNCHANGED <<card_groups, spi_data, has_spi_data, rclk, events, call, ret, xfer>>

ConcNext ==
    \E t \in Threads :
        \/ Begin(t) \/ ClearReset(t) \/ ClearCard(t) \/ ClearExtend(t)
        \/ CardClear(t) \/ CardAb(t) \/ CardLut(t)
        \/ GroupReset(t) \/ GroupExtend(t)
        \/ SpiReset(t) \/ SpiExtend(t) \/ RclkLow(t) \/ SleepLow(t)
        \/ Transfer(t) \/ RclkHigh(t) \/ SleepHigh(t) \/ ReadNmr(t)

ConcSpec == ConcInit /\ [][ConcNext]_vars

-----------------------------------------------------------------------------
(* Vocabulary of the properties: the most recent call, read off the state  *)

Mutating == call.op \in {"clear_all", "clear_group", "set_ch"}

(* the 1-indexed group of the call is one of the stack's groups *)
GroupValid == call.op = "clear_all" \/ call.group \in 1..Len(card_groups)

(* the 1-indexed card of a set_ch call is one of that group's cards *)
CardValid ==
    call.op = "set_ch" => call.card \in 1..card_groups[call.group].num_cards

ValidCall == Mutating /\ GroupValid /\ CardValid

Zero == <<0, 0, 0>>

(* indices of the events of one kind in the log of the most recent call *)
EventsOf(kind) == {i \in 1..Len(events) : events[i].ev = kind}

(* the level the fault-sense accessor returned at the verify step *)
FaultSense == events[Len(events)].arg

FaultRead == events # <<>> /\ events[Len(events)].ev = "nmr" /\ FaultSense = 0

(* the bytes of a sequence of 3-byte images, card 1 first *)
Bytes(cards) ==
    [k \in 1..(3 * Len(cards)) |-> cards[((k - 1) \div 3) + 1][((k - 1) % 3) + 1]]

(* number of cards in the groups before group g *)
RECURSIVE CardsBefore(_)
CardsBefore(g) ==
    IF g <= 1 THEN 0 ELSE CardsBefore(g - 1) + card_groups[g - 1].num_cards

(* the byte sequence handed to the transport sink by the most recent call *)
Transmitted == events[CHOOSE i \in EventsOf("spi") : TRUE].data

-----------------------------------------------------------------------------
(* C1: clear_all, clear_group and set_ch, called with valid indices, each  *)
(* return true when the fault-sense accessor reads OK at the verify step   *)
(* of the call and false when it reads fault.                              *)
C1_ReturnsFaultSense ==
    (ValidCall /\ EventsOf("nmr") # {}) =>
        /\ FaultSense = 1 => ret = "1"
        /\ FaultSense = 0 => ret = "0"

(* C2: every card group has at most one card whose 3-byte image is         *)
(* non-zero, and after set_ch on card X of a group every other card of     *)
(* that group is all-zero.                                                 *)
C2_MutualExclusion ==
    /\ \A g \in 1..Len(card_groups) :
          Cardinality({c \in 1..card_groups[g].num_cards :
                          card_groups[g].cards[c] # Zero}) <= 1
    /\ (call.op = "set_ch" /\ ValidCall) =>
          \A c \in 1..card_groups[call.group].num_cards :
              c # call.card => card_groups[call.group].cards[c] = Zero

C2_Witness ==
    /\ call.op = "set_ch" /\ ValidCall
    /\ card_groups[call.group].num_cards >= 2
    /\ call.card = 2
    /\ card_groups[call.group].cards[2] # Zero
    /\ \E g \in 1..Len(card_groups) :
          g # call.group /\ \E c \in 1..card_groups[g].num_cards :
              card_groups[g].cards[c] # Zero

(* C3: every mutating call with valid indices produces exactly: the latch  *)
(* line of every group driven to 0, the 40 ms delay, one transfer, the     *)
(* latch line of every group driven to 1, the 5 ms delay, one fault-sense  *)
(* read; no latch line is driven to 1 before the transfer and the transfer *)
(* happens with every group's latch line last driven to 0.                 *)
C3_CommitProtocol ==
    ValidCall =>
        LET G == Len(card_groups) IN
        /\ Len(events) = 2 * G + 4
        /\ \A i \in 1..G : events[i].ev = "rclk" /\ events[i].arg = 0
        /\ {events[i].group : i \in 1..G} = 1..G
        /\ events[G + 1].ev = "sleep" /\ events[G + 1].arg = 40
        /\ events[G + 2].ev = "spi"
        /\ \A i \in (G + 3)..(2 * G + 2) : events[i].ev = "rclk" /\ events[i].arg = 1
        /\ {events[i].group : i \in (G + 3)..(2 * G + 2)} = 1..G
        /\ events[2 * G + 3].ev = "sleep" /\ events[2 * G + 3].arg = 5
        /\ events[2 * G + 4].ev = "nmr"
        /\ Cardinality(EventsOf("spi")) = 1
        /\ Cardinality(EventsOf("nmr")) = 1
        /\ \A t \in EventsOf("spi") : \A g \in 1..G :
              /\ \E i \in 1..(t - 1) :
                    events[i].ev = "rclk" /\ events[i].group = g /\ events[i].arg = 0
              /\ \A i \in 1..(t - 1) :
                    (events[i].ev = "rclk" /\ events[i].group = g) => events[i].arg = 0

C3_Witness ==
    /\ call.op = "set_ch" /\ ValidCall
    /\ Len(card_groups) = 2
    /\ Len(events) = 8
    /\ events[4].ev = "spi" /\ events[5].ev = "rclk" /\ events[5].arg = 1

(* C4: on every commit the bytes handed to the transport sink are the      *)
(* groups' payloads in declaration order, each the group's card images in  *)
(* declaration order: the image of card c of group g occupies bytes        *)
(* 3*(cards in groups before g + c-1) .. +2 (0-based).                     *)
C4_PayloadOrdering ==
    ValidCall =>
        /\ Len(Transmitted) = 3 * CardsBefore(Len(card_groups) + 1)
        /\ \A g \in 1..Len(card_groups) :
              /\ Len(card_groups[g].cards) = card_groups[g].num_cards
              /\ \A c \in 1..card_groups[g].num_cards : \A k \in 1..3 :
                    Transmitted[3 * (CardsBefore(g) + c - 1) + k]
                        = card_groups[g].cards[c][k]

C4_Witness ==
    /\ ValidCall
    /\ Len(card_groups) = 2
    /\ card_groups[1].num_cards = 1 /\ card_groups[2].num_cards = 2
    /\ Transmitted = <<0, 2, 0, 0, 0, 0, 128, 0, 8>>

(* C5: every clear_group or set_ch call whose 1-indexed group is outside   *)
(* [1, G], and every set_ch call whose 1-indexed card is outside [1, Cg],  *)
(* fails with an error and never resolves to another group or card.        *)
C5_InvalidIndexFails ==
    /\ (call.op \in {"clear_group", "set_ch"} /\ ~GroupValid) => ret = "IndexError"
    /\ (call.op = "set_ch" /\ GroupValid /\ ~CardValid) => ret = "IndexError"

(* C6: when the fault-sense accessor reads fault at the verify step of a   *)
(* set_ch call, the card registers, group payloads and stack payload after *)
(* the call are exactly those of the just-applied selection, one transfer  *)
(* and one fault read were made, and no exception is raised.               *)
C6_NoRollbackOnFault ==
    [][(call'.op = "set_ch" /\ ValidCall' /\ FaultRead') =>
          LET g     == call'.group
              n     == card_groups[g].num_cards
              cards == [c \in 1..n |->
                           IF c = call'.card
                           THEN MuxCard_set_ch(call'.in_p, call'.in_n)
                           ELSE Zero]
              after == [card_groups EXCEPT
                           ![g] = [num_cards |-> n, cards |-> cards,
                                   spi_data |-> Bytes(cards)]]
          IN  /\ card_groups' = after
              /\ has_spi_data'
              /\ spi_data' = Extend([i \in 1..Len(after) |-> Bytes(after[i].cards)])
              /\ Cardinality(EventsOf("spi")') = 1
              /\ Cardinality(EventsOf("nmr")') = 1
              /\ Transmitted' = spi_data'
              /\ ret' # "IndexError"]_vars

C6_Witness ==
    /\ call.op = "set_ch" /\ ValidCall /\ FaultRead
    /\ card_groups[call.group].cards[call.card] # Zero
    /\ spi_data # [k \in 1..Len(spi_data) |-> 0]

-----------------------------------------------------------------------------
(* The encoder, pin pair by pin pair (under EncSpec) *)

Encoded == call.op = "set_ch" /\ ret # "IndexError"

Image == card_groups[1].cards[1]

PinTable == <<128, 64, 16, 8, 4>>

(* the table entry of pin p, with offset 0 for pins 1..10 and 10 above *)
TableBit(p) == PinTable[((p - (IF p <= 10 THEN 0 ELSE 10) - 1) \div 2) + 1]

(* C7: for positive_pin p in [1,20] with negative_pin 0, byte[2] is 0x08   *)
(* for odd p and 0x04 for even p, and the table entry of p is in byte[0]   *)
(* (byte[1] zero) for p in [1,10] or in byte[1] (byte[0] zero) for p in    *)
(* [11,20].                                                                *)
C7_SingleEnded ==
    (Encoded /\ call.in_n = 0 /\ call.in_p \in 1..20) =>
        /\ Image[3] = (IF call.in_p % 2 = 1 THEN 8 ELSE 4)
        /\ call.in_p <= 10 => Image[1] = TableBit(call.in_p) /\ Image[2] = 0
        /\ call.in_p >= 11 => Image[2] = TableBit(call.in_p) /\ Image[1] = 0

C7_Witness ==
    Encoded /\ call.in_p = 20 /\ call.in_n = 0 /\ Image = <<0, 4, 4>>

(* C8: for odd positive_pin p in [1,19] with negative_pin p+1, byte[2] is  *)
(* 0x10 and the table entry of p is in byte[0] for p in [1,10] or in       *)
(* byte[1] for p in [11,19], the other of the two being zero.              *)
C8_Differential ==
    (Encoded /\ call.in_p \in 1..19 /\ call.in_p % 2 = 1
             /\ call.in_n = call.in_p + 1) =>
        /\ Image[3] = 16
        /\ call.in_p <= 10 => Image[1] = TableBit(call.in_p) /\ Image[2] = 0
        /\ call.in_p >= 11 => Image[2] = TableBit(call.in_p) /\ Image[1] = 0

C8_Witness ==
    Encoded /\ call.in_p = 19 /\ call.in_n = 20 /\ Image = <<0, 4, 16>>

(* C9: whenever positive_pin is 21 the image is [0x00, 0x02, 0x00], for    *)
(* every negative_pin.                                                     *)
C9_CurrentSense ==
    (Encoded /\ call.in_p = 21) => Image = <<0, 2, 0>>

C9_Witness ==
    Encoded /\ call.in_p = 21 /\ call.in_n = 22 /\ Image = <<0, 2, 0>>

(* C10: every pin pair matching none of the current-sense, differential    *)
(* and single-ended patterns encodes to [0,0,0] and signals no error.      *)
C10_Unrecognized ==
    (call.op = "set_ch"
       /\ call.in_p # 21
       /\ ~(call.in_p % 2 = 1 /\ call.in_p \in 1..19 /\ call.in_n = call.in_p + 1)
       /\ ~(call.in_n = 0 /\ call.in_p \in 1..20)) =>
        /\ ret # "IndexError"
        /\ Image = <<0, 0, 0>>

C10_Witness ==
    Encoded /\ call.in_p = 2 /\ call.in_n = 3 /\ Image = <<0, 0, 0>>

-----------------------------------------------------------------------------
(* C11: from any reachable state clear_all leaves every card image zero    *)
(* and transmits an all-zero payload of length 3 x (total number of        *)
(* cards); a second clear_all immediately after transmits an identical     *)
(* payload and leaves the registers and payloads identical.                *)
C11_ClearAllIdempotent ==
    [][call'.op = "clear_all" =>
          /\ \A g \in 1..Len(card_groups') :
                /\ \A c \in 1..card_groups'[g].num_cards :
                      card_groups'[g].cards[c] = Zero
                /\ card_groups'[g].spi_data
                      = [k \in 1..(3 * card_groups'[g].num_cards) |-> 0]
          /\ Len(card_groups') = Len(card_groups)
          /\ Transmitted' = [k \in 1..(3 * CardsBefore(Len(card_groups) + 1)') |-> 0]
          /\ ret' # "IndexError"
          /\ call.op = "clear_all" =>
                /\ card_groups' = card_groups
                /\ spi_data' = spi_data
                /\ Transmitted' = Transmitted]_vars

C11_Witness ==
    /\ call.op = "clear_all"
    /\ Len(card_groups) = 2
    /\ Transmitted = <<0, 0, 0, 0, 0, 0, 0, 0, 0>>
    /\ FaultRead

(* the transmitted bytes of group g: those at the positions of its cards *)
TransmittedOf(g) ==
    SubSeq(Transmitted, 3 * CardsBefore(g) + 1, 3 * CardsBefore(g + 1))

(* C12: clear_group(g) with g in [1, G] sets every card image of group g   *)
(* to zero and leaves the card images and group payload of every other     *)
(* group unchanged; the payload it transmits holds the unchanged images of *)
(* the other groups at their positions.                                    *)
C12_ClearGroupFrame ==
    [][(call'.op = "clear_group" /\ ValidCall') =>
          /\ Len(card_groups') = Len(card_groups)
          /\ \A c \in 1..card_groups'[call'.group].num_cards :
                card_groups'[call'.group].cards[c] = Zero
          /\ \A g \in 1..Len(card_groups) :
                /\ g # call'.group => card_groups'[g] = card_groups[g]
                /\ g # call'.group => TransmittedOf(g)' = Bytes(card_groups[g].cards)
                /\ g = call'.group =>
                      TransmittedOf(g)' = [k \in 1..(3 * card_groups[g].num_cards) |-> 0]]_vars

C12_Witness ==
    /\ call.op = "clear_group" /\ ValidCall
    /\ Len(card_groups) = 2
    /\ \E g \in 1..2 :
          /\ g # call.group
          /\ \E c \in 1..card_groups[g].num_cards : card_groups[g].cards[c] # Zero
          /\ TransmittedOf(g) # [k \in 1..(3 * card_groups[g].num_cards) |-> 0]

(* C13: add_card_group(num_cards, latch writer) places the new group, with *)
(* num_cards all-zero card images, at the end of the group sequence, and   *)
(* changes neither the position nor the register contents of any group     *)
(* added before; on later commits its bytes are the last transmitted.      *)
C13_AddGroupAppends ==
    [][/\ call'.op = "add_card_group" =>
             /\ Len(card_groups') = Len(card_groups) + 1
             /\ \A g \in 1..Len(card_groups) : card_groups'[g] = card_groups[g]
             /\ LET new == card_groups'[Len(card_groups')]
                IN  /\ new.num_cards = call'.card
                    /\ Len(new.cards) = call'.card
                    /\ \A c \in 1..call'.card : new.cards[c] = Zero
                    /\ new.spi_data = [k \in 1..(3 * call'.card) |-> 0]
       /\ (call.op = "add_card_group" /\ ValidCall') =>
             LET last == Len(card_groups')
                 n    == Len(Transmitted')
             IN  /\ card_groups'[last].num_cards = call.card
                 /\ SubSeq(Transmitted', n - 3 * call.card + 1, n)
                       = Bytes(card_groups'[last].cards)]_vars

C13_Witness ==
    /\ call.op = "add_card_group"
    /\ Len(card_groups) = 2
    /\ has_spi_data
    /\ \E c \in 1..card_groups[1].num_cards : card_groups[1].cards[c] # Zero

(* C14: in every reachable state, after any sequence of add_card_group,    *)
(* set_ch, clear_group and clear_all calls (directly after an              *)
(* add_card_group that follows a commit included), the stack's stored      *)
(* payload equals the concatenation of the groups' payloads in group       *)
(* order.  Read here on the states where a payload is stored at all.       *)
C14_StoredPayload ==
    has_spi_data =>
        /\ Len(spi_data) = 3 * CardsBefore(Len(card_groups) + 1)
        /\ \A g \in 1..Len(card_groups) :
              SubSeq(spi_data, 3 * CardsBefore(g) + 1, 3 * CardsBefore(g + 1))
                  = card_groups[g].spi_data

(* the pin pair of the call matches none of the three patterns *)
UnrecognizedPair ==
    /\ call.in_p # 21
    /\ ~(call.in_p % 2 = 1 /\ call.in_p \in 1..19 /\ call.in_n = call.in_p + 1)
    /\ ~(call.in_n = 0 /\ call.in_p \in 1..20)

(* the groups with the card images and payload of group g all zero *)
WithGroupCleared(groups, g) ==
    [groups EXCEPT ![g] =
        [num_cards |-> groups[g].num_cards,
         cards     |-> [c \in 1..groups[g].num_cards |-> Zero],
         spi_data  |-> [k \in 1..(3 * groups[g].num_cards) |-> 0]]]

(* C16: set_ch with an unrecognized pin pair on a valid (group, card)      *)
(* signals no error, runs the full commit protocol and leaves every card   *)
(* image of the addressed group zero: the register state and transmitted   *)
(* payload of clear_group on that group, whatever was selected before.     *)
C16_UnrecognizedClearsGroup ==
    [][(call'.op = "set_ch" /\ ValidCall' /\ UnrecognizedPair') =>
          LET after == WithGroupCleared(card_groups, call'.group)
          IN  /\ ret' # "IndexError"
              /\ card_groups' = after
              /\ Len(events') = 2 * Len(card_groups) + 4
              /\ Cardinality(EventsOf("spi")') = 1
              /\ Cardinality(EventsOf("nmr")') = 1
              /\ Transmitted' = Extend([g \in 1..Len(after) |-> Bytes(after[g].cards)])
              /\ spi_data' = Transmitted']_vars

C16_Witness ==
    /\ call.op = "set_ch" /\ ValidCall /\ UnrecognizedPair
    /\ call.card = 1
    /\ card_groups[call.group].num_cards = 2
    /\ Len(card_groups) = 2
    /\ \E g \in 1..2 : card_groups[g].cards[1] # Zero

(* C17: set_ch(g, c, p, n) with valid indices changes only the card images *)
(* of group g; the card images and group payload of every other group are  *)
(* unchanged, and a channel selected earlier in another group is present,  *)
(* at its position, in the payload this call transmits.                    *)
C17_SetChFrame ==
    [][(call'.op = "set_ch" /\ ValidCall') =>
          /\ Len(card_groups') = Len(card_groups)
          /\ \A g \in 1..Len(card_groups) :
                g # call'.group =>
                    /\ card_groups'[g] = card_groups[g]
                    /\ TransmittedOf(g)' = Bytes(card_groups[g].cards)]_vars

C17_Witness ==
    /\ call.op = "set_ch" /\ ValidCall
    /\ Len(card_groups) = 2
    /\ call.group = 2
    /\ card_groups[2].cards[call.card] # Zero
    /\ card_groups[1].cards[1] = <<0, 2, 0>>
    /\ TransmittedOf(1) = <<0, 2, 0>>

(* C18: a clear_group or set_ch call that fails because its group or card  *)
(* index is out of range leaves every card image and every group payload   *)
(* as before the call and drives no external collaborator.  Stated for     *)
(* group arguments of 1 and above; 0 and negative arguments are C5's.      *)
C18_UnchangedOnIndexError ==
    [][(call'.op \in {"clear_group", "set_ch"} /\ ret' = "IndexError"
          /\ call'.group >= 1) =>
          /\ card_groups' = card_groups
          /\ events' = <<>>
          /\ rclk' = rclk
          /\ spi_data' = spi_data]_vars

-----------------------------------------------------------------------------
(* The encoder's images as relay sets (under EncSpec) *)

TableBits == {128, 64, 16, 8, 4}

(* C19: for every pin pair the image has at most one bit set across        *)
(* byte[0] and byte[1] together, a table bit or 0x02 in byte[1], and at    *)
(* most one bit set in byte[2]; so the payload transmitted for the group   *)
(* carries at most one pin-group bit.                                      *)
C19_SingleRelayPath ==
    Encoded =>
        /\ Image[1] \in TableBits \cup {0}
        /\ Image[2] \in TableBits \cup {0, 2}
        /\ Image[1] = 0 \/ Image[2] = 0
        /\ Image[3] \in {0, 1, 2, 4, 8, 16, 32, 64, 128}
        /\ Len(Transmitted) = 3
        /\ Transmitted[1] = Image[1] /\ Transmitted[2] = Image[2]
        /\ Transmitted[3] = Image[3]

C19_Witness ==
    Encoded /\ call.in_p = 11 /\ call.in_n = 12 /\ Image = <<0, 128, 16>>
            /\ Transmitted = <<0, 128, 16>>

(* the channel selected by a recognized pin pair: the current channel for  *)
(* in_p = 21 whatever in_n is, otherwise the pair itself                   *)
Recognized == Encoded /\ ~UnrecognizedPair

Selection == IF call.in_p = 21 THEN <<21, 21>> ELSE <<call.in_p, call.in_n>>

(* C20: the 31 recognized channel selections (20 single-ended, 10          *)
(* differential, current-sense) encode to pairwise distinct non-zero       *)
(* images.                                                                 *)
C20_EncoderInjective ==
    [][/\ Recognized' => Image' # Zero
       /\ (Recognized /\ Recognized' /\ Image' = Image) => Selection' = Selection]_vars

C20_Witness ==
    Recognized /\ call.in_p = 2 /\ call.in_n = 0 /\ Image = <<128, 0, 4>>

-----------------------------------------------------------------------------
(* Concurrent callers (under ConcSpec) *)

(* some group holds two non-zero card images *)
TwoActive ==
    \E g \in 1..Len(card_groups) :
        Cardinality({c \in 1..card_groups[g].num_cards :
                        card_groups[g].cards[c] # Zero}) >= 2

(* a single-threaded guarantee is broken: two active cards in a group,     *)
(* bytes transferred while a latch line was last driven to 1, or bytes     *)
(* transferred that are not the concatenation of the current card images   *)
Raced == TwoActive \/ (xfer.sent /\ xfer.latched) \/ (xfer.sent /\ xfer.stale)

(* C15: two threads calling set_ch / clear_all on one MuxStack without a   *)
(* mutex can reach a state that breaks the single-threaded guarantees;     *)
(* with all calls serialized under one mutex no such state is reachable.   *)
C15_SerializedCallsSafe == mutex.used => ~Raced

C15_Witness ==
    /\ ~mutex.used
    /\ TwoActive
    /\ xfer.sent /\ xfer.latched /\ xfer.stale

====
